---- MODULE Spec2Model ----
(***************************************************************************)
(* BudgetBuddy: the month lifecycle, the month view (aggregation and       *)
(* variance) and the bulk importer of src/server/storage.ts, over the      *)
(* tables of src/shared/schema.ts.                                         *)
(*                                                                         *)
(* Conventions of the model                                                *)
(*   - a table is the set of its rows; a row is a record with the columns  *)
(*     the code reads or writes (createdAt, updatedAt, isActive and        *)
(*     displayName of the month view are carried where a claim needs them) *)
(*   - NULL / undefined / a falsy id is 0                                  *)
(*   - an amount is an integer number of cents: the decimal(10,2) columns  *)
(*     hold exactly such values                                            *)
(*   - a text the code takes apart (category names, month strings) is a   *)
(*     sequence of one-character strings; other texts are TLA+ strings     *)
(*   - a query without ORDER BY returns its rows in an order the store     *)
(*     chooses: findFirst is any matching row, findMany any permutation    *)
(***************************************************************************)
EXTENDS Integers, Sequences, FiniteSets, TLC

\* ------------------------------------------------------------------ bounds
MaxMonthRows == 2
MaxItemRows == 3
MaxBatch == 3
MaxHistory == 2
MaxViewItems == 2

\* --------------------------------------------------------------- input sets
\* calendar months the requests name: December rolls back over the year
YearMonths == { <<2023, 12>>, <<2024, 1>> }
\* 0 is "no userId"
UserIds == { 0, 1 }

\* texts the code takes apart, as sequences of characters
sFood == << "f", "o", "o", "d" >>
sRevenue == << "r", "e", "v", "e", "n", "u", "e" >>
sFoodDisplay == << "F", "o", "o", "d" >>
sRevenueDisplay == << "R", "e", "v", "e", "n", "u", "e" >>
sFoodCaps == << " ", "F", "o", "o", "d" >>
sIncome == << "i", "n", "c", "o", "m", "e" >>
sMiscellaneous == << "m", "i", "s", "c", "e", "l", "l", "a", "n", "e", "o", "u", "s" >>

sPaid == << "P", "a", "i", "d" >>
sComplete == << "c", "o", "m", "p", "l", "e", "t", "e" >>
sCompleted == << "c", "o", "m", "p", "l", "e", "t", "e", "d" >>
sDec2023 == << "D", "e", "c", " ", "2", "0", "2", "3" >>
sNotAMonth == << "n", "o", "t", " ", "a", " ", "m", "o", "n", "t", "h" >>
sDollarAmount == << "$", "1", ",", "2", "0", "0", ".", "5", "0" >>
sMinusFifty == << "-", "5", "0" >>
sMinusFiftyAndHalf == << "-", "5", "0", ".", "5" >>
sAbc == << "a", "b", "c" >>
sSideHustle == << "s", "i", "d", "e", "_", "h", "u", "s", "t", "l", "e" >>
sSideHustleCaps == << " ", "S", "i", "d", "e", "_", "H", "u", "s", "t", "l", "e", " " >>
sSideHustleDisplay == << "S", "i", "d", "e", " ", "H", "u", "s", "t", "l", "e" >>
sPetCare == << "P", "e", "t", "-", "C", "a", "r", "e" >>
sPetCareName == << "p", "e", "t", "-", "c", "a", "r", "e" >>
sPetCareDisplay == << "P", "e", "t", " ", "C", "a", "r", "e" >>
sOther == << "o", "t", "h", "e", "r" >>
sOtherDisplay == << "O", "t", "h", "e", "r" >>
sJan2024 == << "2", "0", "2", "4", "-", "0", "1" >>

\* the validated forms createBudgetItem is called with (amounts in cents,
\* dueDate a day number or 0 for none)
ItemForms ==
  { [ name |-> "Rent", category |-> sFood, expectedAmount |-> 10000,
      actualAmount |-> 8000, dueDate |-> 15, isPaid |-> TRUE ],
    [ name |-> "Salary", category |-> sRevenue, expectedAmount |-> 30000,
      actualAmount |-> 31000, dueDate |-> 0, isPaid |-> FALSE ] }

\* the validated bodies POST /api/categories is called with: two of the
\* categories of the seed script
CategoryForms ==
  { [ name |-> sRevenue, displayName |-> sRevenueDisplay, type |-> "revenue", sortOrder |-> 0 ],
    [ name |-> sFood, displayName |-> sFoodDisplay, type |-> "expense", sortOrder |-> 3 ] }

VARIABLES
  budgetMonths,   \* table budget_months: [id, year, month, userId]
  budgetItems,    \* table budget_items
  categories,     \* table categories: [id, name, displayName, type, sortOrder]
  serial,         \* the three serial id sequences: next id of each table
  selectedMonth,  \* storage.ts module variable selectedMonth
  requests,       \* the getOrCreateMonth calls in flight: where each one is
  last            \* the most recent call and what it returned

vars == << budgetMonths, budgetItems, categories, serial, selectedMonth, requests, last >>

\* the store as one value, for the operators that thread it through a call
Store == [ months |-> budgetMonths, items |-> budgetItems,
           cats |-> categories, seq |-> serial ]

\* ------------------------------------------------------------ small helpers
RowOrders(S) ==
  { p \in [1..Cardinality(S) -> S] : \A i, j \in DOMAIN p : i # j => p[i] # p[j] }

Range(s) == { s[i] : i \in DOMAIN s }

\* rows of a table selected by a month key, whatever their owner
MonthRowsOf(months, year, month) ==
  { b \in months : b.year = year /\ b.month = month }

ItemsOfMonth(items, monthId) == { it \in items : it.budgetMonthId = monthId }

\* ------------------------------------------------------------------ texts
UpperCaseLetters == << "A", "B", "C", "D", "E", "F", "G", "H", "I", "J", "K", "L", "M",
                       "N", "O", "P", "Q", "R", "S", "T", "U", "V", "W", "X", "Y", "Z" >>
LowerCaseLetters == << "a", "b", "c", "d", "e", "f", "g", "h", "i", "j", "k", "l", "m",
                       "n", "o", "p", "q", "r", "s", "t", "u", "v", "w", "x", "y", "z" >>
DigitChars == << "0", "1", "2", "3", "4", "5", "6", "7", "8", "9" >>

IsSpace(ch) == ch \in { " ", "\t", "\n" }
IsDigit(ch) == \E k \in DOMAIN DigitChars : DigitChars[k] = ch
DigitValue(ch) == (CHOOSE k \in DOMAIN DigitChars : DigitChars[k] = ch) - 1

\* the lower-case letter of each upper-case letter
LowerCaseOf ==
  [ ch \in { UpperCaseLetters[k] : k \in DOMAIN UpperCaseLetters } |->
      LowerCaseLetters[CHOOSE k \in DOMAIN UpperCaseLetters : UpperCaseLetters[k] = ch] ]

\* String.prototype.toLowerCase
toLowerCase(s) ==
  [ i \in DOMAIN s |-> IF s[i] \in DOMAIN LowerCaseOf THEN LowerCaseOf[s[i]] ELSE s[i] ]

\* String.prototype.trim
trim(s) ==
  LET keep == { i \in DOMAIN s : ~IsSpace(s[i]) }
  IN IF keep = {} THEN << >>
     ELSE LET lo == CHOOSE i \in keep : \A j \in keep : i <= j
              hi == CHOOSE i \in keep : \A j \in keep : j <= i
          IN SubSeq(s, lo, hi)

StartsWith(s, prefix) ==
  /\ Len(prefix) <= Len(s)
  /\ SubSeq(s, 1, Len(prefix)) = prefix

DropFirst(s, n) == SubSeq(s, n + 1, Len(s))

RECURSIVE DigitsValue(_)
\* parseInt of a text of digits
DigitsValue(s) ==
  IF s = << >> THEN 0
  ELSE 10 * DigitsValue(SubSeq(s, 1, Len(s) - 1)) + DigitValue(s[Len(s)])

AllDigits(s) == \A i \in DOMAIN s : IsDigit(s[i])

\* ------------------------------------------------- date-fns parse, en-US
\* The parser of a format token returns the set of its outcomes: empty when
\* the token does not match, else the one outcome [value, rest].

\* numeric token of n letters: the pattern ^\d{1,n}
parseNDigits(n, s) ==
  { [ value |-> DigitsValue(SubSeq(s, 1, k)), rest |-> DropFirst(s, k) ]
    : k \in { x \in 1..n : /\ x <= Len(s)
                            /\ AllDigits(SubSeq(s, 1, x))
                            /\ ~(x < n /\ x < Len(s) /\ IsDigit(s[x + 1])) } }

WideMonths ==
  << << "j", "a", "n", "u", "a", "r", "y" >>,
     << "f", "e", "b", "r", "u", "a", "r", "y" >>,
     << "m", "a", "r", "c", "h" >>,
     << "a", "p", "r", "i", "l" >>,
     << "m", "a", "y" >>,
     << "j", "u", "n", "e" >>,
     << "j", "u", "l", "y" >>,
     << "a", "u", "g", "u", "s", "t" >>,
     << "s", "e", "p", "t", "e", "m", "b", "e", "r" >>,
     << "o", "c", "t", "o", "b", "e", "r" >>,
     << "n", "o", "v", "e", "m", "b", "e", "r" >>,
     << "d", "e", "c", "e", "m", "b", "e", "r" >> >>
AbbreviatedMonths ==
  << << "j", "a", "n" >>,
     << "f", "e", "b" >>,
     << "m", "a", "r" >>,
     << "a", "p", "r" >>,
     << "m", "a", "y" >>,
     << "j", "u", "n" >>,
     << "j", "u", "l" >>,
     << "a", "u", "g" >>,
     << "s", "e", "p" >>,
     << "o", "c", "t" >>,
     << "n", "o", "v" >>,
     << "d", "e", "c" >> >>
\* parsePatterns.any and parsePatterns.narrow of the locale: the first
\* pattern that the matched text starts with names the month
AnyMonthPatterns ==
  << << "j", "a" >>, << "f" >>, << "m", "a", "r" >>, << "a", "p" >>, << "m", "a", "y" >>, << "j", "u", "n" >>, << "j", "u", "l" >>, << "a", "u" >>, << "s" >>, << "o" >>, << "n" >>, << "d" >> >>
NarrowMonthPatterns ==
  << << "j" >>, << "f" >>, << "m" >>, << "a" >>, << "m" >>, << "j" >>, << "j" >>, << "a" >>, << "s" >>, << "o" >>, << "n" >>, << "d" >> >>

\* match.month for one width: the matchPattern of the width finds the text,
\* the parsePatterns (those of the width, else "any") find its index
matchMonth(s, matchNames, parsePatterns) ==
  { [ value |-> CHOOSE k \in DOMAIN parsePatterns :
                  /\ StartsWith(matchNames[first], parsePatterns[k])
                  /\ \A j \in DOMAIN parsePatterns :
                       StartsWith(matchNames[first], parsePatterns[j]) => k <= j,
      rest |-> DropFirst(s, Len(matchNames[first])) ]
    \* a regular-expression alternation takes the first alternative that matches
    : first \in { k \in DOMAIN matchNames :
                   /\ StartsWith(toLowerCase(s), matchNames[k])
                   /\ \E j \in DOMAIN parsePatterns :
                        StartsWith(matchNames[k], parsePatterns[j])
                   /\ \A j \in DOMAIN matchNames :
                        StartsWith(toLowerCase(s), matchNames[j]) => k <= j } }

matchMonthWide(s) == matchMonth(s, WideMonths, AnyMonthPatterns)
matchMonthAbbreviated(s) == matchMonth(s, AbbreviatedMonths, AnyMonthPatterns)
matchMonthNarrow(s) == matchMonth(s, NarrowMonthPatterns, NarrowMonthPatterns)

\* token MMMM: wide, else abbreviated, else narrow
parseMMMM(s) ==
  IF matchMonthWide(s) # {} THEN matchMonthWide(s)
  ELSE IF matchMonthAbbreviated(s) # {} THEN matchMonthAbbreviated(s)
  ELSE matchMonthNarrow(s)

\* token MMM: abbreviated, else narrow
parseMMM(s) ==
  IF matchMonthAbbreviated(s) # {} THEN matchMonthAbbreviated(s)
  ELSE matchMonthNarrow(s)

\* token MM without its validation
parseMMUnchecked(s) == parseNDigits(2, s)

\* token MM: one or two digits, valid from 1 to 12
parseMM(s) == { r \in parseNDigits(2, s) : r.value >= 1 /\ r.value <= 12 }

\* token yyyy: one to four digits, valid when positive
parseYYYY(s) == { r \in parseNDigits(4, s) : r.value > 0 }

\* a literal of the format must be the next character
parseLiteral(ch, s) ==
  IF s # << >> /\ s[1] = ch THEN { [ value |-> 0, rest |-> Tail(s) ] } ELSE {}

\* after the last token only white space may be left
OnlySpaceLeft(s) == \A i \in DOMAIN s : IsSpace(s[i])

NullMonth == [ year |-> 0, month |-> 0 ]

\* the date of a set of parse outcomes read back with getFullYear() and
\* getMonth() + 1; NullMonth for an Invalid Date
DateOf(dates) == IF dates = {} THEN NullMonth ELSE CHOOSE date \in dates : TRUE

\* parse(monthStr, "<month token><sep><year token>", new Date())
parseMonthThenYear(s, monthToken, sep) ==
  DateOf(UNION { UNION { { [ year |-> y.value, month |-> m.value ]
                           : y \in { r \in parseYYYY(l.rest) : OnlySpaceLeft(r.rest) } }
                         : l \in parseLiteral(sep, m.rest) }
                 : m \in IF monthToken = "MMMM" THEN parseMMMM(s)
                         ELSE IF monthToken = "MMM" THEN parseMMM(s)
                         ELSE parseMM(s) })

\* parse(monthStr, 'yyyy-MM', new Date())
parseYearThenMonth(s) ==
  DateOf(UNION { UNION { { [ year |-> y.value, month |-> m.value ]
                           : m \in { r \in parseMM(l.rest) : OnlySpaceLeft(r.rest) } }
                         : l \in parseLiteral("-", y.rest) }
                 : y \in parseYYYY(s) })

RECURSIVE splitParts(_, _, _)
\* monthStr.split(/\s+|\/|-/) from position i on, cur being the part so far
splitParts(s, i, cur) ==
  IF i > Len(s) THEN << cur >>
  ELSE IF s[i] \in { "/", "-" } THEN << cur >> \o splitParts(s, i + 1, << >>)
  ELSE IF IsSpace(s[i])
       THEN << cur >> \o splitParts(s, CHOOSE j \in (i + 1)..(Len(s) + 1) :
                                          /\ j = Len(s) + 1 \/ ~IsSpace(s[j])
                                          /\ \A k \in i..(j - 1) : IsSpace(s[k]),
                                      << >>)
  ELSE splitParts(s, i + 1, Append(cur, s[i]))

IndexIn(names, text) ==
  IF \E k \in DOMAIN names : names[k] = text
  THEN CHOOSE k \in DOMAIN names : names[k] = text
  ELSE 0

\* /^\d{4}$/.test(part)
IsYearPart(part) == Len(part) = 4 /\ AllDigits(part)

\* the month a part names: a number from 1 to 12, a full name or a short name
\* (0: none of them)
monthOfPart(monthPart) ==
  IF Len(monthPart) \in 1..2 /\ AllDigits(monthPart)
  THEN IF DigitsValue(monthPart) >= 1 /\ DigitsValue(monthPart) <= 12
       THEN DigitsValue(monthPart) ELSE 0
  ELSE IF IndexIn(WideMonths, toLowerCase(monthPart)) # 0
       THEN IndexIn(WideMonths, toLowerCase(monthPart))
  ELSE IndexIn(AbbreviatedMonths, toLowerCase(monthPart))

\* the last resort of parseMonthString: two parts, one a 4-digit year
parseMonthParts(s) ==
  DateOf({ [ year |-> DigitsValue(parts[yearIndex]), month |-> monthOfPart(parts[3 - yearIndex]) ]
           : << parts, yearIndex >> \in
               { pair \in { splitParts(s, 1, << >>) } \X { 1, 2 } :
                   /\ Len(pair[1]) = 2
                   /\ IsYearPart(pair[1][pair[2]])
                   \* findIndex returns the first part that is a year
                   /\ ~(pair[2] = 2 /\ IsYearPart(pair[1][1]))
                   /\ monthOfPart(pair[1][3 - pair[2]]) # 0 } })

\* parseMonthString(monthStr): {year, month} or NullMonth for null
parseMonthString(monthStr) ==
  IF monthStr = << >> THEN NullMonth
  ELSE IF parseMonthThenYear(monthStr, "MMMM", " ") # NullMonth
       THEN parseMonthThenYear(monthStr, "MMMM", " ")
  ELSE IF parseMonthThenYear(monthStr, "MMM", " ") # NullMonth
       THEN parseMonthThenYear(monthStr, "MMM", " ")
  ELSE IF parseYearThenMonth(monthStr) # NullMonth
       THEN parseYearThenMonth(monthStr)
  ELSE IF parseMonthThenYear(monthStr, "MM", "/") # NullMonth
       THEN parseMonthThenYear(monthStr, "MM", "/")
  ELSE parseMonthParts(monthStr)

\* -------------------------------------------------------- month lifecycle
\* prevMonth that steps forward instead of backward
PrevMonthOfForward(year, month) ==
  IF month = 12 THEN [year |-> year + 1, month |-> 1]
  ELSE [year |-> year, month |-> month + 1]

\* createMonth's prevMonth: (y, 1) -> (y-1, 12), (y, m) -> (y, m-1)
PrevMonthOf(year, month) ==
  IF month = 1 THEN [year |-> year - 1, month |-> 12]
  ELSE [year |-> year, month |-> month - 1]

\* createMonth that keeps the actual amount of the items it copies
CopiedItemsKeepingActual(ord, newMonthId, firstId) ==
  { [ id |-> firstId + i - 1,
      budgetMonthId |-> newMonthId,
      categoryId |-> ord[i].categoryId,
      name |-> ord[i].name,
      expectedAmount |-> ord[i].expectedAmount,
      actualAmount |-> ord[i].actualAmount,
      dueDate |-> ord[i].dueDate,
      isPaid |-> FALSE ] : i \in DOMAIN ord }

\* the item rows createMonth inserts for prevItems, read in the order ord:
\* the serial column numbers them in that order
CopiedItems(ord, newMonthId, firstId) ==
  { [ id |-> firstId + i - 1,
      budgetMonthId |-> newMonthId,
      categoryId |-> ord[i].categoryId,
      name |-> ord[i].name,
      expectedAmount |-> ord[i].expectedAmount,
      actualAmount |-> 0,
      dueDate |-> ord[i].dueDate,
      isPaid |-> FALSE ] : i \in DOMAIN ord }

\* storage.createMonth(year, month, userId): every outcome the store allows.
\* An outcome is [db, id, prevId]: the store afterwards, the new row's id and
\* the id of the preceding month row it copied from (0: none found).
createMonth(db, year, month, userId) ==
  LET newMonth == [ id |-> db.seq.months, year |-> year, month |-> month,
                    userId |-> userId ]
      db1 == [ db EXCEPT !.months = @ \cup {newMonth},
                         !.seq.months = @ + 1 ]
      prev == PrevMonthOf(year, month)
      found == MonthRowsOf(db1.months, prev.year, prev.month)
  IN IF found = {}
     THEN { [ db |-> db1, id |-> newMonth.id, prevId |-> 0 ] }
     ELSE UNION { { [ db |-> [ db1 EXCEPT
                                 !.items = @ \cup CopiedItems(ord, newMonth.id, db1.seq.items),
                                 !.seq.items = @ + Len(ord) ],
                      id |-> newMonth.id, prevId |-> previousMonth.id ]
                    : ord \in RowOrders(ItemsOfMonth(db1.items, previousMonth.id)) }
                : previousMonth \in found }

\* a lookup that finds no row
LookupMonthNothing(months, year, month, userId) == { }

\* the lookup of getOrCreateMonth: year, month and the owner, where a falsy
\* userId selects the rows whose userId is NULL
LookupMonth(months, year, month, userId) ==
  { b \in MonthRowsOf(months, year, month) :
      IF userId # 0 THEN b.userId = userId ELSE b.userId = 0 }

\* what getOrCreateMonth passes to createMonth as userId: it calls
\* this.createMonth(year, month), so the parameter is undefined
CreateMonthOwnerArg(userId) == 0

\* storage.getOrCreateMonth(year, month, userId), up to the month row it
\* resolves: outcomes [db, id, created, prevId]
resolveMonth(db, year, month, userId) ==
  LET found == LookupMonth(db.months, year, month, userId)
  IN IF found # {}
     THEN { [ db |-> db, id |-> b.id, created |-> FALSE, prevId |-> 0 ] : b \in found }
     ELSE { [ db |-> r.db, id |-> r.id, created |-> TRUE, prevId |-> r.prevId ]
            : r \in createMonth(db, year, month, CreateMonthOwnerArg(userId)) }

\* ------------------------------------------------------------- month view
MonthNames == << "January", "February", "March", "April", "May", "June", "July",
                 "August", "September", "October", "November", "December" >>

\* formatMonthYear(year, month): format(new Date(year, month - 1, 1), 'MMMM yyyy'),
\* the text "<month name> <year>" as its two words
formatMonthYear(year, month) == [ name |-> MonthNames[month], year |-> year ]

\* parse(text, 'MMMM yyyy', new Date()) of createBudgetItem, then getFullYear()
\* and getMonth() + 1: the month whose name the first word is
parseMonthYear(text) ==
  [ year |-> text.year,
    month |-> CHOOSE m \in DOMAIN MonthNames : MonthNames[m] = text.name ]

\* a reduce that stops after the first element
SumSeqFirstOnly(s) == IF s = << >> THEN 0 ELSE Head(s)

RECURSIVE SumSeq(_)
\* array.reduce((total, x) => total + x, 0)
SumSeq(s) == IF s = << >> THEN 0 ELSE Head(s) + SumSeq(Tail(s))

\* the variance with its operands exchanged
calculateVarianceSwapped(actual, expected) == expected - actual

calculateVariance(actual, expected) == actual - expected

\* the percentage without the test for expected = 0
calculateVariancePercentageUnguarded(variance, expected) ==
  [ num |-> variance * 100, den |-> expected ]

\* (variance / expected) * 100 as the exact fraction num / den; 0 is 0 / 1
calculateVariancePercentage(variance, expected) ==
  IF expected = 0 THEN [ num |-> 0, den |-> 1 ]
  ELSE [ num |-> variance * 100, den |-> expected ]

\* the category row an item is joined with (with: { category: true })
CategoryOf(cats, item) == CHOOSE c \in cats : c.id = item.categoryId

\* findMany({ orderBy: asc(sortOrder) }): rows of equal sortOrder in any order
SortedCategoryOrders(cats) ==
  { co \in RowOrders(cats) :
      \A i, j \in DOMAIN co : i < j => co[i].sortOrder <= co[j].sortOrder }

\* one entry of revenueItems or of a category's items
ViewItem(item, categoryName) ==
  [ id |-> item.id,
    name |-> item.name,
    category |-> categoryName,
    expectedAmount |-> item.expectedAmount,
    actualAmount |-> item.actualAmount,
    dueDate |-> item.dueDate,
    isPaid |-> item.isPaid,
    variance |-> calculateVariance(item.actualAmount, item.expectedAmount) ]

ExpectedOf(viewItems) == [ i \in DOMAIN viewItems |-> viewItems[i].expectedAmount ]
\* the actual amounts taken from the expected ones
ActualOfExpected(viewItems) == [ i \in DOMAIN viewItems |-> viewItems[i].expectedAmount ]
ActualOf(viewItems) == [ i \in DOMAIN viewItems |-> viewItems[i].actualAmount ]

\* one entry of expenseCategories
ExpenseCategoryView(category, allItems) ==
  LET InCategory(item) == item.categoryId = category.id
      kept == SelectSeq(allItems, InCategory)
      categoryItems == [ i \in DOMAIN kept |-> ViewItem(kept[i], category.name) ]
      expectedTotal == SumSeq(ExpectedOf(categoryItems))
      actualTotal == SumSeq(ActualOf(categoryItems))
  IN [ category |-> category.name,
       displayName |-> category.displayName,
       items |-> categoryItems,
       totals |-> [ expectedTotal |-> expectedTotal,
                    actualTotal |-> actualTotal,
                    variance |-> calculateVariance(actualTotal, expectedTotal) ] ]

\* the MonthData getOrCreateMonth returns for the month row monthId, when the
\* store returns the categories as allCategories and the items as allItems
MonthView(db, year, month, allCategories, allItems) ==
  LET IsRevenue(item) == CategoryOf(db.cats, item).type = "revenue"
      revenueRows == SelectSeq(allItems, IsRevenue)
      revenueItems == [ i \in DOMAIN revenueRows |-> ViewItem(revenueRows[i], "revenue") ]
      expectedTotalRevenue == SumSeq(ExpectedOf(revenueItems))
      actualTotalRevenue == SumSeq(ActualOf(revenueItems))
      revenueVariance == calculateVariance(actualTotalRevenue, expectedTotalRevenue)
      IsExpense(category) == category.type = "expense"
      expenseRows == SelectSeq(allCategories, IsExpense)
      expenseCategories ==
        [ i \in DOMAIN expenseRows |-> ExpenseCategoryView(expenseRows[i], allItems) ]
      expectedTotalExpenses ==
        SumSeq([ i \in DOMAIN expenseCategories |-> expenseCategories[i].totals.expectedTotal ])
      actualTotalExpenses ==
        SumSeq([ i \in DOMAIN expenseCategories |-> expenseCategories[i].totals.actualTotal ])
      expensesVariance == calculateVariance(actualTotalExpenses, expectedTotalExpenses)
      expectedNetIncome == expectedTotalRevenue - expectedTotalExpenses
      actualNetIncome == actualTotalRevenue - actualTotalExpenses
      netIncomeVariance == calculateVariance(actualNetIncome, expectedNetIncome)
  IN [ month |-> formatMonthYear(year, month),
       revenueItems |-> revenueItems,
       expenseCategories |-> expenseCategories,
       totals |-> [
         expectedTotalRevenue |-> expectedTotalRevenue,
         actualTotalRevenue |-> actualTotalRevenue,
         expectedTotalExpenses |-> expectedTotalExpenses,
         actualTotalExpenses |-> actualTotalExpenses,
         expectedNetIncome |-> expectedNetIncome,
         actualNetIncome |-> actualNetIncome,
         revenueVariance |-> revenueVariance,
         expensesVariance |-> expensesVariance,
         netIncomeVariance |-> netIncomeVariance,
         revenueVariancePercentage |->
           calculateVariancePercentage(revenueVariance, expectedTotalRevenue),
         expensesVariancePercentage |->
           calculateVariancePercentage(expensesVariance, expectedTotalExpenses),
         netIncomeVariancePercentage |->
           calculateVariancePercentage(netIncomeVariance, expectedNetIncome) ] ]

\* every MonthData the call can return for a month row of the store
MonthViews(db, year, month, monthId) ==
  { MonthView(db, year, month, allCategories, allItems) :
      allCategories \in SortedCategoryOrders(db.cats),
      allItems \in RowOrders(ItemsOfMonth(db.items, monthId)) }

\* ------------------------------------------------------------ bulk import
\* a field of an import record that holds an amount: absent, null, a number
\* or a string
AmountAbsent == [ k |-> "undefined", v |-> 0 ]
AmountNull == [ k |-> "null", v |-> 0 ]
AmountNumber(v) == [ k |-> "number", v |-> v ]
AmountString(s) == [ k |-> "string", v |-> s ]

\* the amount NaN, which the decimal columns of the store accept and keep:
\* a value that no number of cents of the model takes
NaN == 0 - 2147483647

\* replace(/[^0-9.-]+/g, ''): only digits, '.' and '-' are kept
IsAmountChar(ch) == IsDigit(ch) \/ ch \in { ".", "-" }
stripAmount(s) == SelectSeq(s, IsAmountChar)

\* the number of digits s starts with
DigitPrefixLen(s) ==
  CHOOSE k \in 0..Len(s) :
    /\ AllDigits(SubSeq(s, 1, k))
    /\ k < Len(s) => ~IsDigit(s[k + 1])

\* the digit at position i of s as a number, 0 past the end of digits
DigitAt(digits, i) == IF i <= Len(digits) THEN DigitValue(digits[i]) ELSE 0

\* parseFloat(s) of a text of digits, '.' and '-', in cents as the
\* decimal(10,2) column rounds it: an optional '-', digits, an optional '.'
\* with digits; NaN without any digit
parseFloat(s) ==
  CHOOSE cents \in
    { IF Len(whole) = 0 /\ Len(fraction) = 0 THEN NaN
      ELSE (IF negative THEN -1 ELSE 1)
             * (DigitsValue(whole) * 100 + DigitAt(fraction, 1) * 10 + DigitAt(fraction, 2)
                  + (IF DigitAt(fraction, 3) >= 5 THEN 1 ELSE 0))
      : << negative, whole, fraction >> \in
          { << neg, SubSeq(body, 1, n), SubSeq(rest, 1, DigitPrefixLen(rest)) >>
            : << neg, body, n, rest >> \in
                { << sign, unsigned, DigitPrefixLen(unsigned),
                     IF DigitPrefixLen(unsigned) < Len(unsigned)
                        /\ unsigned[DigitPrefixLen(unsigned) + 1] = "."
                     THEN DropFirst(unsigned, DigitPrefixLen(unsigned) + 1) ELSE << >> >>
                  : << sign, unsigned >> \in
                      { << s # << >> /\ s[1] = "-",
                           IF s # << >> /\ s[1] = "-" THEN Tail(s) ELSE s >> } } } } : TRUE

\* one branch of "Parse amounts": typeof x === 'number' ? x : parseFloat(...);
\* null.toString() throws
readAmount(a) ==
  IF a.k = "number" THEN [ ok |-> TRUE, value |-> a.v ]
  ELSE IF a.k = "string" THEN [ ok |-> TRUE, value |-> parseFloat(stripAmount(a.v)) ]
  ELSE [ ok |-> FALSE, value |-> 0 ]

\* expectedAmount: the first of expectedAmount, budgetAmount, amount that is
\* not undefined, else 0
readExpectedAmount(item) ==
  IF item.expectedAmount.k # "undefined" THEN readAmount(item.expectedAmount)
  ELSE IF item.budgetAmount.k # "undefined" THEN readAmount(item.budgetAmount)
  ELSE IF item.amount.k # "undefined" THEN readAmount(item.amount)
  ELSE [ ok |-> TRUE, value |-> 0 ]

readActualAmount(item) ==
  IF item.actualAmount.k # "undefined" THEN readAmount(item.actualAmount)
  ELSE [ ok |-> TRUE, value |-> 0 ]

\* the negation applied whatever the type is
normalizeSignOfAnyType(categoryType, amount) ==
  IF amount # NaN /\ amount < 0 THEN -amount ELSE amount

\* "Handle negation for expense amounts"
normalizeSign(categoryType, amount) ==
  IF amount # NaN /\ categoryType = "expense" /\ amount < 0 THEN -amount ELSE amount

PaidWords == { sPaid, sComplete, sCompleted }

\* "Parse payment status"
readIsPaid(item) ==
  IF item.isPaid # "undefined" THEN item.isPaid = "true"
  ELSE IF item.paid # "undefined" THEN item.paid = "true"
  ELSE item.status # << >> /\ toLowerCase(item.status) \in PaidWords

\* the category type of a record: item.type || 'expense'
importCategoryType(item) == IF item.type = "" THEN "expense" ELSE item.type

\* the category name of a record, with its defaults
importCategoryName(item) ==
  LET categoryName == trim(toLowerCase(item.category))
  IN IF categoryName # << >> THEN categoryName
     ELSE IF importCategoryType(item) = "revenue" THEN sIncome
     ELSE sMiscellaneous

\* an import record with every field absent
BlankRecord ==
  [ name |-> "", description |-> "", category |-> << >>, type |-> "", month |-> << >>,
    expectedAmount |-> AmountAbsent, budgetAmount |-> AmountAbsent,
    amount |-> AmountAbsent, actualAmount |-> AmountAbsent,
    isPaid |-> "undefined", paid |-> "undefined", status |-> << >> ]

\* an expense with an upper-case category, paid, in the batch's month
RecordRent ==
  [ BlankRecord EXCEPT !.name = "Rent", !.category = sFoodCaps, !.type = "expense",
                       !.expectedAmount = AmountNumber(10000),
                       !.actualAmount = AmountNumber(-8000), !.status = sPaid ]
\* a revenue without category, in a month of its own
RecordSalary ==
  [ BlankRecord EXCEPT !.name = "Salary", !.type = "revenue", !.month = sJan2024,
                       !.amount = AmountNumber(30000),
                       !.actualAmount = AmountNumber(31000) ]
\* a record whose type is neither revenue nor expense
RecordBogusType ==
  [ BlankRecord EXCEPT !.name = "Gift", !.category = sFood, !.type = "bogus",
                       !.expectedAmount = AmountNumber(500) ]
\* a record whose expectedAmount is null
RecordNullAmount ==
  [ BlankRecord EXCEPT !.name = "Broken", !.category = sFood,
                       !.expectedAmount = AmountNull ]

\* the entry null of a batch
NullRecord == [ isNull |-> TRUE ]

ImportRecords == { RecordRent, RecordSalary, RecordBogusType, RecordNullAmount }

\* records that raise an exception, next to one that does not
FaultyRecords == { RecordRent, NullRecord, RecordNullAmount }

\* amounts written as strings: "$1,200.50" and "-50" for an expense
RecordDollar ==
  [ BlankRecord EXCEPT !.name = "Dollar", !.category = sFood, !.type = "expense",
                       !.expectedAmount = AmountString(sDollarAmount),
                       !.actualAmount = AmountString(sMinusFifty) ]
\* "-50" and "-50.5" for a revenue
RecordRefund ==
  [ BlankRecord EXCEPT !.name = "Refund", !.type = "revenue",
                       !.amount = AmountString(sMinusFifty),
                       !.actualAmount = AmountString(sMinusFiftyAndHalf) ]
\* "abc" and the empty string
RecordAbc ==
  [ BlankRecord EXCEPT !.name = "Abc", !.category = sFood, !.type = "expense",
                       !.expectedAmount = AmountString(sAbc),
                       !.actualAmount = AmountString(<< >>) ]
AmountRecords == { RecordDollar, RecordRefund, RecordAbc }

\* two spellings of one revenue category, and two expense categories
RecordSideHustle ==
  [ BlankRecord EXCEPT !.name = "Shop", !.category = sSideHustle, !.type = "revenue",
                       !.amount = AmountNumber(5000) ]
RecordTutoring ==
  [ BlankRecord EXCEPT !.name = "Tutoring", !.category = sSideHustleCaps, !.type = "revenue",
                       !.amount = AmountNumber(7000) ]
RecordPetCare ==
  [ BlankRecord EXCEPT !.name = "Vet", !.category = sPetCare, !.type = "expense",
                       !.amount = AmountNumber(9000) ]
\* a revenue filed under the name of the expense category food
RecordCashback ==
  [ BlankRecord EXCEPT !.name = "Cashback", !.category = sFood, !.type = "revenue",
                       !.amount = AmountNumber(1500) ]
TypedRecords == { RecordRent, RecordCashback }
CategoryRecords == { RecordSideHustle, RecordTutoring, RecordPetCare, RecordRent }

\* month fields: "Dec 2023" and one that names no month
RecordBonus ==
  [ BlankRecord EXCEPT !.name = "Bonus", !.type = "revenue", !.month = sDec2023,
                       !.amount = AmountNumber(2000) ]
RecordBadMonth ==
  [ BlankRecord EXCEPT !.name = "Undated", !.category = sFood, !.type = "expense",
                       !.month = sNotAMonth, !.amount = AmountNumber(1000) ]
MonthRecords == { RecordSalary, RecordBonus, RecordBadMonth, RecordRent }

\* every record of the batches, null aside
ObjectRecords ==
  (ImportRecords \cup FaultyRecords \cup AmountRecords \cup CategoryRecords
     \cup MonthRecords \cup TypedRecords) \ { NullRecord }

\* no record's month field is looked at
ParsedMonthOfNone == [ item \in ObjectRecords |-> NullMonth ]

\* what the loop body reads off each record, computed once
ParsedMonthOf ==
  [ item \in ObjectRecords |->
      IF item.month # << >> THEN parseMonthString(item.month) ELSE NullMonth ]
CategoryNameOf == [ item \in ObjectRecords |-> importCategoryName(item) ]
ExpectedAmountOf == [ item \in ObjectRecords |-> readExpectedAmount(item) ]
ActualAmountOf == [ item \in ObjectRecords |-> readActualAmount(item) ]
IsPaidOf == [ item \in ObjectRecords |-> readIsPaid(item) ]

\* the batches over a set of records: up to MaxBatch different records in
\* any order
BatchesOf(records) ==
  UNION { { data \in [ 1..n -> records ] :
              \A i, j \in 1..n : i # j => data[i] # data[j] } : n \in 1..MaxBatch }

ImportBatches == BatchesOf(ImportRecords)

\* the records of a batch that reach the insert of their item
Inserting(data) ==
  { i \in DOMAIN data :
      /\ \A j \in 1..i : data[j] # NullRecord
      /\ ExpectedAmountOf[data[i]].ok
      /\ ActualAmountOf[data[i]].ok }

\* a missing month created through createMonth, with its carry-forward
importMonthCarrying(db, cache, targetYear, targetMonth) ==
  LET cached == { e \in cache : e.year = targetYear /\ e.month = targetMonth }
      found == MonthRowsOf(db.months, targetYear, targetMonth)
  IN IF cached # {}
     THEN { [ db |-> db, cache |-> cache, id |-> e.id, created |-> FALSE ] : e \in cached }
     ELSE IF found # {}
     THEN { [ db |-> db,
              cache |-> cache \cup { [ year |-> targetYear, month |-> targetMonth, id |-> b.id ] },
              id |-> b.id, created |-> FALSE ] : b \in found }
     ELSE { [ db |-> r.db,
              cache |-> cache \cup { [ year |-> targetYear, month |-> targetMonth, id |-> r.id ] },
              id |-> r.id, created |-> TRUE ]
            : r \in createMonth(db, targetYear, targetMonth, 0) }

\* a month row inserted for every record, without cache or lookup
importMonthAlwaysNew(db, cache, targetYear, targetMonth) ==
  { [ db |-> [ db EXCEPT !.months = @ \cup { [ id |-> db.seq.months, year |-> targetYear,
                                                month |-> targetMonth, userId |-> 0 ] },
                         !.seq.months = @ + 1 ],
      cache |-> cache, id |-> db.seq.months, created |-> TRUE ] }

\* the month row of one record: from monthCache, else any row of the target
\* month, else a new row without owner. Outcomes [db, cache, id, created]
importMonth(db, cache, targetYear, targetMonth) ==
  LET cached == { e \in cache : e.year = targetYear /\ e.month = targetMonth }
      found == MonthRowsOf(db.months, targetYear, targetMonth)
      newMonth == [ id |-> db.seq.months, year |-> targetYear, month |-> targetMonth,
                    userId |-> 0 ]
      Remember(id) == cache \cup { [ year |-> targetYear, month |-> targetMonth, id |-> id ] }
  IN IF cached # {}
     THEN { [ db |-> db, cache |-> cache, id |-> e.id, created |-> FALSE ] : e \in cached }
     ELSE IF found # {}
     THEN { [ db |-> db, cache |-> Remember(b.id), id |-> b.id, created |-> FALSE ]
            : b \in found }
     ELSE { [ db |-> [ db EXCEPT !.months = @ \cup {newMonth}, !.seq.months = @ + 1 ],
              cache |-> Remember(newMonth.id), id |-> newMonth.id, created |-> TRUE ] }

RECURSIVE splitName(_, _, _)
\* categoryName.split(/[_\-\s]/) from position i on, cur being the part so far
splitName(s, i, cur) ==
  IF i > Len(s) THEN << cur >>
  ELSE IF s[i] \in { "_", "-" } \/ IsSpace(s[i])
       THEN << cur >> \o splitName(s, i + 1, << >>)
  ELSE splitName(s, i + 1, Append(cur, s[i]))

\* the upper-case letter of each lower-case letter
UpperCaseOf ==
  [ ch \in { LowerCaseLetters[k] : k \in DOMAIN LowerCaseLetters } |->
      UpperCaseLetters[CHOOSE k \in DOMAIN LowerCaseLetters : LowerCaseLetters[k] = ch] ]

\* String.prototype.toUpperCase
toUpperCase(s) ==
  [ i \in DOMAIN s |-> IF s[i] \in DOMAIN UpperCaseOf THEN UpperCaseOf[s[i]] ELSE s[i] ]

\* a part left as it is
capitalizeNothing(part) == part

\* part.charAt(0).toUpperCase() + part.slice(1)
capitalize(part) ==
  IF part = << >> THEN << >> ELSE toUpperCase(<< part[1] >>) \o Tail(part)

RECURSIVE joinParts(_)
\* parts.join(' ')
joinParts(parts) ==
  IF Len(parts) = 0 THEN << >>
  ELSE IF Len(parts) = 1 THEN parts[1]
  ELSE parts[1] \o << " " >> \o joinParts(Tail(parts))

\* the displayName of a category the import creates
importDisplayName(categoryName) ==
  LET parts == splitName(categoryName, 1, << >>)
  IN joinParts([ i \in DOMAIN parts |-> capitalize(parts[i]) ])

\* the find that compares the names as they are written
findCategoryExact(allCategories, categoryName, categoryType) ==
  LET hits == { i \in DOMAIN allCategories :
                  /\ allCategories[i].name = categoryName
                  /\ allCategories[i].type = categoryType }
  IN IF hits = {} THEN 0 ELSE CHOOSE i \in hits : \A j \in hits : i <= j

\* allCategories.find(...): index of the first match, 0 for undefined
findCategory(allCategories, categoryName, categoryType) ==
  LET hits == { i \in DOMAIN allCategories :
                  /\ toLowerCase(allCategories[i].name) = categoryName
                  /\ allCategories[i].type = categoryType }
  IN IF hits = {} THEN 0 ELSE CHOOSE i \in hits : \A j \in hits : i <= j

\* the body of the loop of importBudgetData for one record, from the loop
\* state st = [db, cache, allCategories, res, threw]: the loop states it can
\* lead to. For the entry null, item.month throws, the catch counts the
\* failure and then throws itself on item.name: the exception leaves
\* importBudgetData (threw).
importRecord(st, year, month, item) ==
  IF item = NullRecord
  THEN { [ st EXCEPT !.res.failed = @ + 1, !.threw = TRUE ] }
  ELSE
  LET \* item.month ? parseMonthString(item.month.toString()) : null
      parsedMonth == ParsedMonthOf[item]
      targetYear == IF parsedMonth # NullMonth THEN parsedMonth.year ELSE year
      targetMonth == IF parsedMonth # NullMonth THEN parsedMonth.month ELSE month
      categoryName == CategoryNameOf[item]
      categoryType == importCategoryType(item)
      expectedAmount == ExpectedAmountOf[item]
      actualAmount == ActualAmountOf[item]
  IN { LET monthsCreated == IF m.created THEN 1 ELSE 0
           at == findCategory(st.allCategories, categoryName, categoryType)
           newCategory == [ id |-> m.db.seq.cats, name |-> categoryName,
                            displayName |-> importDisplayName(categoryName),
                            type |-> categoryType,
                            sortOrder |-> IF categoryType = "revenue" THEN 0 ELSE 100 ]
           category == IF at # 0 THEN st.allCategories[at] ELSE newCategory
           db2 == IF at # 0 THEN m.db
                  ELSE [ m.db EXCEPT !.cats = @ \cup {newCategory}, !.seq.cats = @ + 1 ]
           allCategories2 == IF at # 0 THEN st.allCategories
                             ELSE Append(st.allCategories, newCategory)
           categoryCreated == IF at # 0 THEN 0 ELSE 1
           newItem == [ id |-> db2.seq.items,
                        budgetMonthId |-> m.id,
                        categoryId |-> category.id,
                        name |-> IF item.name # "" THEN item.name
                                 ELSE IF item.description # "" THEN item.description
                                 ELSE "Imported Item",
                        expectedAmount |-> normalizeSign(categoryType, expectedAmount.value),
                        actualAmount |-> normalizeSign(categoryType, actualAmount.value),
                        dueDate |-> 0,
                        isPaid |-> IsPaidOf[item] ]
       IN IF expectedAmount.ok /\ actualAmount.ok
          THEN [ db |-> [ db2 EXCEPT !.items = @ \cup {newItem}, !.seq.items = @ + 1 ],
                 cache |-> m.cache,
                 allCategories |-> allCategories2,
                 threw |-> FALSE,
                 res |-> [ st.res EXCEPT !.success = @ + 1,
                                         !.categoryCreated = @ + categoryCreated,
                                         !.monthsCreated = @ + monthsCreated ] ]
          ELSE [ db |-> db2,
                 cache |-> m.cache,
                 allCategories |-> allCategories2,
                 threw |-> FALSE,
                 res |-> [ st.res EXCEPT !.failed = @ + 1,
                                         !.categoryCreated = @ + categoryCreated,
                                         !.monthsCreated = @ + monthsCreated,
                                         !.errors = Append(@, IF item.name # "" THEN item.name
                                                              ELSE "Unknown") ] ]
       : m \in importMonth(st.db, st.cache, targetYear, targetMonth) }

RECURSIVE importLoop(_, _, _, _, _)
\* for (const item of data) from the i-th record on
importLoop(st, year, month, data, i) ==
  IF i > Len(data) \/ st.threw THEN { st }
  ELSE UNION { importLoop(st2, year, month, data, i + 1)
               : st2 \in importRecord(st, year, month, data[i]) }

\* storage.importBudgetData(year, month, data): outcomes [db, res, threw],
\* where threw tells that the call ended with an exception instead of
\* returning res
importBudgetData(db, year, month, data) ==
  UNION { { [ db |-> st.db, res |-> st.res, threw |-> st.threw ]
            : st \in importLoop([ db |-> db, cache |-> {}, allCategories |-> allCategories,
                                  threw |-> FALSE,
                                  res |-> [ success |-> 0, failed |-> 0,
                                            categoryCreated |-> 0, monthsCreated |-> 0,
                                            errors |-> << >> ] ],
                                year, month, data, 1) }
          : allCategories \in RowOrders(db.cats) }

WithinBounds(db) ==
  /\ Cardinality(db.months) <= MaxMonthRows
  /\ Cardinality(db.items) <= MaxItemRows

NoCall == [ op |-> "none" ]

\* two requests served at the same time
RequestIds == { 1, 2 }
Idle == [ pc |-> "idle" ]

Commit(db) ==
  /\ WithinBounds(db)
  /\ budgetMonths' = db.months
  /\ budgetItems' = db.items
  /\ categories' = db.cats
  /\ serial' = db.seq

Init ==
  /\ budgetMonths = {}
  /\ budgetItems = {}
  /\ categories = {}
  /\ serial = [ months |-> 1, items |-> 1, cats |-> 1 ]
  /\ selectedMonth \in { [year |-> ym[1], month |-> ym[2]] : ym \in YearMonths }
  /\ requests = [ q \in RequestIds |-> Idle ]
  /\ last = NoCall

\* storage.getOrCreateMonth(year, month, userId)
GetOrCreateMonth ==
  \E ym \in YearMonths, userId \in UserIds :
    \E r \in resolveMonth(Store, ym[1], ym[2], userId) :
      /\ Commit(r.db)
      /\ last' = [ op |-> "getOrCreateMonth", year |-> ym[1], month |-> ym[2],
                   userId |-> userId, id |-> r.id, created |-> r.created,
                   prevId |-> r.prevId ]
      /\ UNCHANGED << selectedMonth, requests >>

\* storage.getCurrentMonth(userId): getOrCreateMonth of the selected month
GetCurrentMonth ==
  \E userId \in UserIds :
    \E r \in resolveMonth(Store, selectedMonth.year, selectedMonth.month, userId) :
      /\ Commit(r.db)
      /\ last' = [ op |-> "getOrCreateMonth", year |-> selectedMonth.year,
                   month |-> selectedMonth.month, userId |-> userId, id |-> r.id,
                   created |-> r.created, prevId |-> r.prevId ]
      /\ UNCHANGED << selectedMonth, requests >>

\* the month i months before (currentYear, currentMonth) of getBudgetHistory:
\* month = currentMonth - i, then while (month <= 0) { year--; month += 12 }
RECURSIVE MonthBack(_, _)
MonthBack(year, month) ==
  IF month <= 0 THEN MonthBack(year - 1, month + 12)
  ELSE [ year |-> year, month |-> month ]

\* the loop of getBudgetHistory from its i-th round on: the stores it can
\* leave behind (getOrCreateMonth does not throw in the model)
RECURSIVE historyLoop(_, _, _, _, _, _)
historyLoop(db, currentYear, currentMonth, i, numMonths, userId) ==
  IF i >= numMonths THEN { db }
  ELSE LET ym == MonthBack(currentYear, currentMonth - i)
       IN UNION { historyLoop(r.db, currentYear, currentMonth, i + 1, numMonths, userId)
                  : r \in resolveMonth(db, ym.year, ym.month, userId) }

\* storage.getBudgetHistory(numMonths, userId); today is the clock's month
GetBudgetHistory ==
  \E today \in YearMonths, numMonths \in 1..MaxHistory, userId \in UserIds :
    \E db \in historyLoop(Store, today[1], today[2], 0, numMonths, userId) :
      /\ Commit(db)
      /\ last' = [ op |-> "getBudgetHistory" ]
      /\ UNCHANGED << selectedMonth, requests >>

\* storage.createBudgetItem(data): outcomes [db, ok, id, monthId]
createBudgetItem(db, data) ==
  UNION {
    LET db1 == r.db
        currentMonth == formatMonthYear(selectedMonth.year, selectedMonth.month)
        monthDate == parseMonthYear(currentMonth)
        monthRows == MonthRowsOf(db1.months, monthDate.year, monthDate.month)
        categoryRows == { c \in db1.cats : c.name = data.category }
    IN IF monthRows = {} \/ categoryRows = {}
       THEN { [ db |-> db1, ok |-> FALSE, id |-> 0, monthId |-> 0 ] }
       ELSE { [ db |-> [ db1 EXCEPT
                   !.items = @ \cup { [ id |-> db1.seq.items,
                                        budgetMonthId |-> budgetMonth.id,
                                        categoryId |-> category.id,
                                        name |-> data.name,
                                        expectedAmount |-> data.expectedAmount,
                                        actualAmount |-> data.actualAmount,
                                        dueDate |-> data.dueDate,
                                        isPaid |-> data.isPaid ] },
                   !.seq.items = @ + 1 ],
                ok |-> TRUE, id |-> db1.seq.items, monthId |-> budgetMonth.id ]
              : budgetMonth \in monthRows, category \in categoryRows }
    : r \in resolveMonth(db, selectedMonth.year, selectedMonth.month, 0) }

CreateBudgetItem ==
  \E data \in ItemForms :
    \E r \in createBudgetItem(Store, data) :
      /\ Commit(r.db)
      /\ last' = [ op |-> "createBudgetItem", ok |-> r.ok, id |-> r.id,
                   monthId |-> r.monthId ]
      /\ UNCHANGED << selectedMonth, requests >>

\* POST /api/categories with a valid body: outcomes [db, status]
createCategoryRoute(db, validatedData) ==
  LET existingCategory == { c \in db.cats : c.name = validatedData.name }
      newCategory == [ id |-> db.seq.cats, name |-> validatedData.name,
                       displayName |-> validatedData.displayName,
                       type |-> validatedData.type,
                       sortOrder |-> validatedData.sortOrder ]
  IN IF existingCategory # {}
     THEN [ db |-> db, status |-> 400 ]
     ELSE [ db |-> [ db EXCEPT !.cats = @ \cup {newCategory}, !.seq.cats = @ + 1 ],
            status |-> 201 ]

CreateCategory ==
  \E validatedData \in CategoryForms :
    LET r == createCategoryRoute(Store, validatedData)
    IN /\ Commit(r.db)
       /\ last' = [ op |-> "createCategory", status |-> r.status ]
       /\ UNCHANGED << selectedMonth, requests >>

\* storage.importBudgetData(year, month, data) for a batch of batches
ImportOneOf(batches) ==
  \E ym \in YearMonths, data \in batches :
    /\ Cardinality(budgetItems) + Cardinality(Inserting(data)) <= MaxItemRows
    /\ \E r \in importBudgetData(Store, ym[1], ym[2], data) :
         /\ Commit(r.db)
         /\ last' = [ op |-> "importBudgetData", year |-> ym[1], month |-> ym[2],
                      data |-> data, res |-> r.res, threw |-> r.threw ]
         /\ UNCHANGED << selectedMonth, requests >>

\* storage.importBudgetData(year, month, data)
ImportBudgetData == ImportOneOf(ImportBatches)

\* the same with batches that hold null or a null amount
ImportFaulty == ImportOneOf(BatchesOf(FaultyRecords))

\* the same with amounts written as strings
ImportAmounts == ImportOneOf(BatchesOf(AmountRecords))

\* the same with records that name categories in several spellings
ImportCategories == ImportOneOf(BatchesOf(CategoryRecords))

\* the same with records that carry a month field
ImportMonths == ImportOneOf(BatchesOf(MonthRecords))

\* the month lifecycle: month resolution, categories and items
Next ==
  \/ GetOrCreateMonth
  \/ GetCurrentMonth
  \/ GetBudgetHistory
  \/ CreateCategory
  \/ CreateBudgetItem

Spec == Init /\ [][Next]_vars

\* the bulk importer
NextImport ==
  \/ ImportBudgetData

\* the importer does not read the selected month
InitImport == Init /\ selectedMonth = [ year |-> 2024, month |-> 1 ]

SpecImport == InitImport /\ [][NextImport]_vars

NextImportFaulty ==
  \/ ImportFaulty

SpecImportFaulty == InitImport /\ [][NextImportFaulty]_vars

NextImportAmounts ==
  \/ ImportAmounts

SpecImportAmounts == InitImport /\ [][NextImportAmounts]_vars

\* the importer meets an empty store, or the category "Food" made by hand
InitImportCategories ==
  /\ budgetMonths = {}
  /\ budgetItems = {}
  /\ \/ /\ categories = {}
        /\ serial = [ months |-> 1, items |-> 1, cats |-> 1 ]
     \/ /\ categories = { [ id |-> 1, name |-> sFoodDisplay, displayName |-> sFoodDisplay,
                            type |-> "expense", sortOrder |-> 3 ] }
        /\ serial = [ months |-> 1, items |-> 1, cats |-> 2 ]
  /\ selectedMonth = [ year |-> 2024, month |-> 1 ]
  /\ requests = [ q \in RequestIds |-> Idle ]
  /\ last = NoCall

NextImportCategories ==
  \/ ImportCategories

SpecImportCategories == InitImportCategories /\ [][NextImportCategories]_vars

NextImportMonths ==
  \/ ImportMonths

SpecImportMonths == InitImport /\ [][NextImportMonths]_vars

\* ------------------------------------------------- the month view by itself
\* the store the views are computed over: the categories an import creates
\* (sortOrder 0 for revenue, 100 for expense), one month and up to
\* MaxViewItems items of it with amounts from ViewExpected and ViewActual
ViewCategories ==
  { [ id |-> 1, name |-> sIncome, displayName |-> importDisplayName(sIncome),
      type |-> "revenue", sortOrder |-> 0 ],
    [ id |-> 2, name |-> sFood, displayName |-> importDisplayName(sFood),
      type |-> "expense", sortOrder |-> 100 ],
    [ id |-> 3, name |-> sMiscellaneous, displayName |-> importDisplayName(sMiscellaneous),
      type |-> "expense", sortOrder |-> 100 ] }
ViewExpected == { 0, 100 }
ViewActual == { 0, 80 }

ViewItemRows(n) ==
  { { [ id |-> i, budgetMonthId |-> 1, categoryId |-> f[i][1], name |-> "Imported Item",
        expectedAmount |-> f[i][2], actualAmount |-> f[i][3], dueDate |-> 0,
        isPaid |-> FALSE ] : i \in 1..n }
    : f \in [ 1..n -> { c.id : c \in ViewCategories } \X ViewExpected \X ViewActual ] }

InitView ==
  /\ budgetMonths = { [ id |-> 1, year |-> 2024, month |-> 1, userId |-> 0 ] }
  /\ categories = ViewCategories
  /\ \E n \in 0..MaxViewItems :
       /\ budgetItems \in ViewItemRows(n)
       /\ serial = [ months |-> 2, items |-> n + 1, cats |-> 4 ]
  /\ selectedMonth = [ year |-> 2024, month |-> 1 ]
  /\ requests = [ q \in RequestIds |-> Idle ]
  /\ last = NoCall

NextView ==
  \/ GetOrCreateMonth

SpecView == InitView /\ [][NextView]_vars

\* ------------------------------------ getOrCreateMonth, request by request
\* Each await of getOrCreateMonth and createMonth is a step; the steps of two
\* requests interleave. pc names the statement a request executes next.
CommitRace(db) ==
  /\ budgetMonths' = db.months
  /\ budgetItems' = db.items
  /\ categories' = db.cats
  /\ serial' = db.seq

\* a request arrives: getOrCreateMonth(year, month, userId) is called
Arrive(q) ==
  /\ requests[q].pc = "idle"
  /\ \E ym \in YearMonths, userId \in UserIds :
       requests' = [ requests EXCEPT ![q] =
         [ pc |-> "lookup", year |-> ym[1], month |-> ym[2], userId |-> userId,
           id |-> 0, created |-> FALSE, prevId |-> 0, prevItems |-> << >> ] ]
  /\ UNCHANGED << budgetMonths, budgetItems, categories, serial, selectedMonth, last >>

\* await db.query.budgetMonths.findFirst(...) of getOrCreateMonth
LookupStep(q) ==
  LET r == requests[q]
      found == LookupMonth(budgetMonths, r.year, r.month, r.userId)
  IN /\ r.pc = "lookup"
     /\ IF found = {}
        THEN requests' = [ requests EXCEPT ![q].pc = "insertMonth" ]
        ELSE \E b \in found :
               requests' = [ requests EXCEPT ![q].pc = "read", ![q].id = b.id ]
     /\ UNCHANGED << budgetMonths, budgetItems, categories, serial, selectedMonth, last >>

\* await db.insert(budgetMonths) of createMonth
InsertMonthStep(q) ==
  LET r == requests[q]
      newMonth == [ id |-> serial.months, year |-> r.year, month |-> r.month,
                    userId |-> CreateMonthOwnerArg(r.userId) ]
  IN /\ r.pc = "insertMonth"
     /\ CommitRace([ Store EXCEPT !.months = @ \cup {newMonth}, !.seq.months = @ + 1 ])
     /\ requests' = [ requests EXCEPT ![q].pc = "findPrevious", ![q].id = newMonth.id,
                                      ![q].created = TRUE ]
     /\ UNCHANGED << selectedMonth, last >>

\* await db.query.budgetMonths.findFirst(...) for the previous month
FindPreviousStep(q) ==
  LET r == requests[q]
      prev == PrevMonthOf(r.year, r.month)
      found == MonthRowsOf(budgetMonths, prev.year, prev.month)
  IN /\ r.pc = "findPrevious"
     /\ IF found = {}
        THEN requests' = [ requests EXCEPT ![q].pc = "read" ]
        ELSE \E previousMonth \in found :
               requests' = [ requests EXCEPT ![q].pc = "readPrevItems",
                                             ![q].prevId = previousMonth.id ]
     /\ UNCHANGED << budgetMonths, budgetItems, categories, serial, selectedMonth, last >>

\* await db.query.budgetItems.findMany(...) of the previous month
ReadPrevItemsStep(q) ==
  LET r == requests[q]
  IN /\ r.pc = "readPrevItems"
     /\ \E prevItems \in RowOrders(ItemsOfMonth(budgetItems, r.prevId)) :
          requests' = [ requests EXCEPT
            ![q].pc = IF Len(prevItems) > 0 THEN "insertItems" ELSE "read",
            ![q].prevItems = prevItems ]
     /\ UNCHANGED << budgetMonths, budgetItems, categories, serial, selectedMonth, last >>

\* await db.insert(budgetItems).values(newItems)
InsertItemsStep(q) ==
  LET r == requests[q]
  IN /\ r.pc = "insertItems"
     /\ CommitRace([ Store EXCEPT
          !.items = @ \cup CopiedItems(r.prevItems, r.id, serial.items),
          !.seq.items = @ + Len(r.prevItems) ])
     /\ requests' = [ requests EXCEPT ![q].pc = "read" ]
     /\ UNCHANGED << selectedMonth, last >>

\* the reads of the categories and of the month's items, and the return
ReturnStep(q) ==
  LET r == requests[q]
  IN /\ r.pc = "read"
     /\ requests' = [ requests EXCEPT ![q].pc = "done" ]
     /\ last' = [ op |-> "getOrCreateMonth", year |-> r.year, month |-> r.month,
                  userId |-> r.userId, id |-> r.id, created |-> r.created,
                  prevId |-> r.prevId ]
     /\ UNCHANGED << budgetMonths, budgetItems, categories, serial, selectedMonth >>

\* the store the two requests meet: empty, or December 2023 with one item
InitRace ==
  /\ \/ /\ budgetMonths = {}
        /\ budgetItems = {}
        /\ categories = {}
        /\ serial = [ months |-> 1, items |-> 1, cats |-> 1 ]
     \/ /\ budgetMonths = { [ id |-> 1, year |-> 2023, month |-> 12, userId |-> 0 ] }
        /\ categories = { [ id |-> 1, name |-> sFood, displayName |-> sFoodDisplay,
                            type |-> "expense", sortOrder |-> 3 ] }
        /\ budgetItems = { [ id |-> 1, budgetMonthId |-> 1, categoryId |-> 1,
                             name |-> "Rent", expectedAmount |-> 10000,
                             actualAmount |-> 8000, dueDate |-> 15, isPaid |-> TRUE ] }
        /\ serial = [ months |-> 2, items |-> 2, cats |-> 2 ]
  /\ selectedMonth = [ year |-> 2024, month |-> 1 ]
  /\ requests = [ q \in RequestIds |-> Idle ]
  /\ last = NoCall

NextRace ==
  \E q \in RequestIds :
    \/ Arrive(q)
    \/ LookupStep(q)
    \/ InsertMonthStep(q)
    \/ FindPreviousStep(q)
    \/ ReadPrevItemsStep(q)
    \/ InsertItemsStep(q)
    \/ ReturnStep(q)

SpecRace == InitRace /\ [][NextRace]_vars
\* ==================================================================== claims
\* the call last records is a call of getOrCreateMonth (directly or through
\* getCurrentMonth)
Resolved(call) == call.op = "getOrCreateMonth"

SameArguments(a, b) == a.year = b.year /\ a.month = b.month /\ a.userId = b.userId

\* C1: two successive calls of getOrCreateMonth with the same year, month and
\* userId and nothing in between resolve to the same row: the second call
\* returns the id of the first, inserts no month, and exactly one row of that
\* (year, month, owner) exists afterwards.
C1_IdempotentResolution ==
  [][ (Resolved(last) /\ Resolved(last') /\ SameArguments(last, last'))
      => /\ last'.id = last.id
         /\ budgetMonths' = budgetMonths
         /\ Cardinality({ b \in budgetMonths' : /\ b.year = last'.year
                                                /\ b.month = last'.month
                                                /\ b.userId = last'.userId }) = 1 ]_vars

\* C2: at most one BudgetMonth row per (year, month, owner).
C2_OneMonthPerKey ==
  \A a, b \in budgetMonths :
    (a.year = b.year /\ a.month = b.month /\ a.userId = b.userId) => a = b

\* C3: after two concurrent getOrCreateMonth calls for the same (year, month,
\* owner) have both finished, at most one row of that key exists.
C3_NoDuplicateUnderRace ==
  ( /\ requests[1].pc = "done"
    /\ requests[2].pc = "done"
    /\ SameArguments(requests[1], requests[2]) )
  => Cardinality({ b \in budgetMonths : /\ b.year = requests[1].year
                                        /\ b.month = requests[1].month
                                        /\ b.userId = requests[1].userId }) <= 1

\* the preceding calendar month, as the claims define it
PrecedingYear(year, month) == IF month = 1 THEN year - 1 ELSE year
PrecedingMonth(year, month) == IF month = 1 THEN 12 ELSE month - 1

\* copy is original carried forward: same name, category, expected amount and
\* due date, actual amount 0, not paid
IsCarriedForward(copy, original) ==
  /\ copy.name = original.name
  /\ copy.categoryId = original.categoryId
  /\ copy.expectedAmount = original.expectedAmount
  /\ copy.dueDate = original.dueDate
  /\ copy.actualAmount = 0
  /\ copy.isPaid = FALSE

C5_NoPrecedingMonthStartsEmpty ==
  [][ (Resolved(last') /\ last'.created)
      => LET preceding == { b \in budgetMonths :
                              /\ b.year = PrecedingYear(last'.year, last'.month)
                              /\ b.month = PrecedingMonth(last'.year, last'.month) }
             added == budgetItems' \ budgetItems
         IN /\ preceding = {} => (added = {} /\ ItemsOfMonth(budgetItems', last'.id) = {})
            /\ \A c \in added :
                 \E M \in preceding : \E o \in ItemsOfMonth(budgetItems, M.id) :
                   IsCarriedForward(c, o) /\ c.budgetMonthId = last'.id ]_vars

\* C5 witness: a month was created empty, without preceding month, while
\* another month holds items
C5_Witness ==
  /\ Resolved(last)
  /\ last.created
  /\ MonthRowsOf(budgetMonths, PrecedingYear(last.year, last.month),
                 PrecedingMonth(last.year, last.month)) = {}
  /\ ItemsOfMonth(budgetItems, last.id) = {}
  /\ budgetItems # {}

\* the month views the last call can have returned
ReturnedViews == MonthViews(Store, last.year, last.month, last.id)

ItemVarianceHolds(item) == item.variance = item.actualAmount - item.expectedAmount

\* C6: in every month view, variance = actual - expected for every revenue
\* item, every expense item, every expense category and the three month totals.
C6_VarianceIdentity ==
  Resolved(last) =>
    \A v \in ReturnedViews :
      /\ \A i \in DOMAIN v.revenueItems : ItemVarianceHolds(v.revenueItems[i])
      /\ \A c \in DOMAIN v.expenseCategories :
           /\ \A i \in DOMAIN v.expenseCategories[c].items :
                ItemVarianceHolds(v.expenseCategories[c].items[i])
           /\ v.expenseCategories[c].totals.variance =
                v.expenseCategories[c].totals.actualTotal
                  - v.expenseCategories[c].totals.expectedTotal
      /\ v.totals.revenueVariance = v.totals.actualTotalRevenue - v.totals.expectedTotalRevenue
      /\ v.totals.expensesVariance = v.totals.actualTotalExpenses - v.totals.expectedTotalExpenses
      /\ v.totals.netIncomeVariance = v.totals.actualNetIncome - v.totals.expectedNetIncome

\* C6 witness: a returned view with a revenue item and an expense item whose
\* variances are not zero
C6_Witness ==
  /\ Resolved(last)
  /\ \E v \in ReturnedViews :
       /\ \E i \in DOMAIN v.revenueItems : v.revenueItems[i].variance # 0
       /\ \E c \in DOMAIN v.expenseCategories :
            \E i \in DOMAIN v.expenseCategories[c].items :
              v.expenseCategories[c].items[i].variance # 0

\* percentage is variance / expected * 100, and 0 when expected is 0
IsPercentage(percentage, variance, expected) ==
  IF expected = 0 THEN percentage.num = 0 /\ percentage.den = 1
  ELSE /\ percentage.den # 0
       /\ percentage.num * expected = variance * 100 * percentage.den

\* C7: each of the three variance percentages of a month view is 0 when the
\* corresponding expected total is 0, and variance / expected * 100 otherwise.
C7_PercentageFloor ==
  Resolved(last) =>
    \A v \in ReturnedViews :
      /\ IsPercentage(v.totals.revenueVariancePercentage,
                      v.totals.revenueVariance, v.totals.expectedTotalRevenue)
      /\ IsPercentage(v.totals.expensesVariancePercentage,
                      v.totals.expensesVariance, v.totals.expectedTotalExpenses)
      /\ IsPercentage(v.totals.netIncomeVariancePercentage,
                      v.totals.netIncomeVariance, v.totals.expectedNetIncome)

\* C7 witness: a returned view whose expected revenue is 0 while its actual
\* revenue is not, and whose expected expenses are not 0
C7_Witness ==
  /\ Resolved(last)
  /\ \E v \in ReturnedViews :
       /\ v.totals.expectedTotalRevenue = 0
       /\ v.totals.actualTotalRevenue # 0
       /\ v.totals.expectedTotalExpenses # 0
       /\ v.totals.expensesVariance # 0

RECURSIVE SumExpected(_)
SumExpected(items) ==
  IF items = {} THEN 0
  ELSE LET it == CHOOSE x \in items : TRUE
       IN it.expectedAmount + SumExpected(items \ {it})

RECURSIVE SumActual(_)
SumActual(items) ==
  IF items = {} THEN 0
  ELSE LET it == CHOOSE x \in items : TRUE
       IN it.actualAmount + SumActual(items \ {it})

\* the stored items of the returned month whose category has this type
StoredOfType(type) ==
  { it \in ItemsOfMonth(budgetItems, last.id) :
      \E c \in categories : c.id = it.categoryId /\ c.type = type }

\* the stored items of the returned month in the category of this name
StoredOfCategory(name) ==
  { it \in ItemsOfMonth(budgetItems, last.id) :
      \E c \in categories : c.id = it.categoryId /\ c.type = "expense" /\ c.name = name }

\* C8: category totals are the sums over the category's own stored items,
\* expense totals the sums of the category totals, revenue totals the sums
\* over the revenue items, net income revenue minus expenses, expected with
\* expected and actual with actual.
C8_TotalsAreSums ==
  Resolved(last) =>
    \A v \in ReturnedViews :
      /\ \A c \in DOMAIN v.expenseCategories :
           /\ v.expenseCategories[c].totals.expectedTotal =
                SumExpected(StoredOfCategory(v.expenseCategories[c].category))
           /\ v.expenseCategories[c].totals.actualTotal =
                SumActual(StoredOfCategory(v.expenseCategories[c].category))
      /\ v.totals.expectedTotalExpenses = SumExpected(StoredOfType("expense"))
      /\ v.totals.actualTotalExpenses = SumActual(StoredOfType("expense"))
      /\ v.totals.expectedTotalRevenue = SumExpected(StoredOfType("revenue"))
      /\ v.totals.actualTotalRevenue = SumActual(StoredOfType("revenue"))
      /\ v.totals.expectedNetIncome =
           SumExpected(StoredOfType("revenue")) - SumExpected(StoredOfType("expense"))
      /\ v.totals.actualNetIncome =
           SumActual(StoredOfType("revenue")) - SumActual(StoredOfType("expense"))

\* C8 witness: a returned view with two expense categories that both hold
\* items, whose expected and actual totals differ
C8_Witness ==
  /\ Resolved(last)
  /\ \E v \in ReturnedViews :
       /\ \E c, d \in DOMAIN v.expenseCategories :
            /\ c # d
            /\ Len(v.expenseCategories[c].items) > 0
            /\ Len(v.expenseCategories[d].items) > 0
       /\ v.totals.expectedTotalExpenses # v.totals.actualTotalExpenses

\* the figures of a view, without the order of its lists
Figures(v) ==
  [ totals |-> v.totals,
    revenueItems |-> Range(v.revenueItems),
    expenseCategories |->
      { [ category |-> v.expenseCategories[c].category,
          totals |-> v.expenseCategories[c].totals,
          items |-> Range(v.expenseCategories[c].items) ]
        : c \in DOMAIN v.expenseCategories } ]

C10_ImportPartialFailure ==
  ( /\ last.op = "importBudgetData"
    /\ Len(last.data) = 3
    /\ last.data[1] \in { RecordRent, RecordSalary }
    /\ last.data[2] = RecordBogusType
    /\ last.data[3] \in { RecordRent, RecordSalary } )
  => /\ last.res.success = 2
     /\ last.res.failed = 1
     /\ \E it \in budgetItems : it.name = last.data[1].name
     /\ \E it \in budgetItems : it.name = last.data[3].name
     /\ ~ \E it \in budgetItems : it.name = RecordBogusType.name

\* C11: whatever the records of a batch are, null included, importBudgetData
\* returns a result instead of throwing; success + failed is the number of
\* records and errors holds one message for each failed record.
C11_ImportNeverThrows ==
  last.op = "importBudgetData" =>
    /\ ~last.threw
    /\ last.res.success + last.res.failed = Len(last.data)
    /\ Len(last.res.errors) = last.res.failed

\* the stored item an import made of the record of this name
ImportedAs(name) == { it \in budgetItems : it.name = name }

\* C12: on import "$1,200.50" is read as 1200.50; "-50" is stored as 50 for an
\* expense and as -50 for a revenue, for the expected and the actual amount.
C12_AmountNormalization ==
  /\ \A it \in ImportedAs(RecordDollar.name) :
       it.expectedAmount = 120050 /\ it.actualAmount = 5000
  /\ \A it \in ImportedAs(RecordRefund.name) :
       it.expectedAmount = -5000 /\ it.actualAmount = -5050

\* C12 witness: both records were imported in one batch
C12_Witness ==
  /\ last.op = "importBudgetData"
  /\ ImportedAs(RecordDollar.name) # {}
  /\ ImportedAs(RecordRefund.name) # {}
  /\ last.res.success >= 2

\* C13: a record whose amounts are "abc" and "" is imported without error,
\* counted in success, and stored with expectedAmount 0 and actualAmount 0.
C13_UnparseableAmountIsZero ==
  ( /\ last.op = "importBudgetData"
    /\ \E i \in DOMAIN last.data : last.data[i] = RecordAbc )
  => /\ last.res.failed = 0
     /\ last.res.success = Len(last.data)
     /\ ImportedAs(RecordAbc.name) # {}
     /\ \A it \in ImportedAs(RecordAbc.name) :
          it.expectedAmount = 0 /\ it.actualAmount = 0

\* the name under which the category of a record of CategoryRecords is kept
ExpectedCategoryName(record) ==
  IF record \in { RecordSideHustle, RecordTutoring } THEN sSideHustle
  ELSE IF record = RecordPetCare THEN sPetCareName
  ELSE sFood

\* the display name of a category of that name
ExpectedDisplayName(name) ==
  IF name = sSideHustle THEN sSideHustleDisplay
  ELSE IF name = sPetCareName THEN sPetCareDisplay
  ELSE sFoodDisplay

\* C14: a category the import creates has the display name made of the
\* capitalised tokens of its name joined by spaces ("side_hustle" gives
\* "Side Hustle") and sortOrder 0 for revenue, 100 otherwise; a record whose
\* (name, type) matches no category creates exactly one category and adds one
\* to categoryCreated.
C14_CategoryAutoCreation ==
  [][ last'.op = "importBudgetData"
      => LET added == categories' \ categories
         IN /\ \A c \in added :
                 /\ c.displayName = ExpectedDisplayName(c.name)
                 /\ c.sortOrder = IF c.type = "revenue" THEN 0 ELSE 100
            /\ \A record \in CategoryRecords :
                 ( /\ last'.data = << record >>
                   /\ ~ \E e \in categories :
                          /\ toLowerCase(e.name) = ExpectedCategoryName(record)
                          /\ e.type = record.type )
                 => /\ Cardinality(added) = 1
                    /\ last'.res.categoryCreated = 1
                    /\ \A c \in added : /\ c.name = ExpectedCategoryName(record)
                                        /\ c.type = record.type ]_vars

\* C14 witness: the import of one record created the category side_hustle
C14_Witness ==
  /\ last.op = "importBudgetData"
  /\ Len(last.data) = 1
  /\ last.res.categoryCreated = 1
  /\ \E c \in categories :
       /\ c.name = sSideHustle
       /\ c.displayName = sSideHustleDisplay
       /\ c.type = "revenue"
       /\ c.sortOrder = 0

\* the category name of a record as the comparison sees it
ComparedName(record) == trim(toLowerCase(record.category))

MonthStringParts ==
  { << "M", "a", "r", "c", "h" >>,
    << "M", "a", "r" >>,
    << "M", "A", "R", "C", "H" >>,
    << "m" >>,
    << "0", "3" >>,
    << "3" >>,
    << "1", "3" >>,
    << "0", "0" >>,
    << "2", "0", "2", "4" >>,
    << "2", "4" >>,
    << "m", "o", "n", "t", "h" >>,
    << >> }
MonthStringSeparators == { << " " >>, << "/" >>, << "-" >> }
MonthStrings ==
  { first \o sep \o second
    : first \in MonthStringParts, sep \in MonthStringSeparators, second \in MonthStringParts }
  \cup { sNotAMonth, << >> }

InitParse ==
  /\ budgetMonths = {}
  /\ budgetItems = {}
  /\ categories = {}
  /\ serial = [ months |-> 1, items |-> 1, cats |-> 1 ]
  /\ selectedMonth = [ year |-> 2024, month |-> 1 ]
  /\ requests = [ q \in RequestIds |-> Idle ]
  /\ \E monthStr \in MonthStrings : last = [ op |-> "input", monthStr |-> monthStr ]

\* parseMonthString(monthStr)
ParseMonthString ==
  /\ last.op = "input"
  /\ last' = [ op |-> "parseMonthString", monthStr |-> last.monthStr,
               result |-> parseMonthString(last.monthStr) ]
  /\ UNCHANGED << budgetMonths, budgetItems, categories, serial, selectedMonth, requests >>

NextParse ==
  \/ ParseMonthString

SpecParse == InitParse /\ [][NextParse]_vars

\* C16: parseMonthString returns null or a pair whose month is in 1..12;
\* "March 2024", "03/2024", "Mar 2024" and "2024-03" give (2024, 3);
\* "not a month" and numeric months outside 1..12 give null.
C16_MonthStringParsing ==
  last.op = "parseMonthString" =>
    /\ last.result = NullMonth \/ last.result.month \in 1..12
    /\ last.monthStr \in { << "M", "a", "r", "c", "h", " ", "2", "0", "2", "4" >>,
                           << "0", "3", "/", "2", "0", "2", "4" >>,
                           << "M", "a", "r", " ", "2", "0", "2", "4" >>,
                           << "2", "0", "2", "4", "-", "0", "3" >> }
         => last.result = [ year |-> 2024, month |-> 3 ]
    /\ last.monthStr \in { sNotAMonth,
                           << "1", "3", "/", "2", "0", "2", "4" >>,
                           << "2", "0", "2", "4", "-", "1", "3" >>,
                           << "0", "0", "/", "2", "0", "2", "4" >>,
                           << "1", "3", " ", "2", "0", "2", "4" >> }
         => last.result = NullMonth

\* C16 witness: "03/2024" was parsed
C16_Witness ==
  /\ last.op = "parseMonthString"
  /\ last.monthStr = << "0", "3", "/", "2", "0", "2", "4" >>
  /\ last.result = [ year |-> 2024, month |-> 3 ]

\* the month a record of MonthRecords belongs to in a batch for (year, month)
ExpectedTarget(record, year, month) ==
  IF record = RecordSalary THEN << 2024, 1 >>
  ELSE IF record = RecordBonus THEN << 2023, 12 >>
  ELSE << year, month >>

\* C17: the item of an import record is inserted into the month of the
\* record's month field when the field is present and parses ("Jan 2024",
\* "Dec 2023"), and into the month of the batch when the field is absent or
\* does not parse ("not a month"); a month field that does not parse never
\* makes the record fail.
C17_RecordTargetMonth ==
  [][ (last'.op = "importBudgetData" /\ last'.data \in BatchesOf(MonthRecords))
      => LET newItems == budgetItems' \ budgetItems
             data == last'.data
         IN /\ last'.res.failed = 0
            /\ last'.res.success = Len(data)
            /\ Cardinality(newItems) = Len(data)
            /\ \A i \in DOMAIN data :
                 \E it \in newItems :
                   /\ it.name = data[i].name
                   /\ \E b \in budgetMonths' :
                        /\ b.id = it.budgetMonthId
                        /\ << b.year, b.month >>
                             = ExpectedTarget(data[i], last'.year, last'.month) ]_vars

\* C17 witness: a batch for December 2023 brought a record of January 2024
\* and a record whose month field names no month
C17_Witness ==
  /\ last.op = "importBudgetData"
  /\ last.year = 2023 /\ last.month = 12
  /\ last.data = << RecordSalary, RecordBadMonth >>
  /\ Cardinality(budgetItems) = 2
  /\ \E a, u \in budgetItems, ba, bu \in budgetMonths :
       /\ a.name = RecordSalary.name /\ ba.id = a.budgetMonthId
       /\ ba.year = 2024 /\ ba.month = 1
       /\ u.name = RecordBadMonth.name /\ bu.id = u.budgetMonthId
       /\ bu.year = 2023 /\ bu.month = 12

\* ------------------------------------- categories and items kept by hand
\* the categories and the items these runs create: the highest id of each
MaxCategoryRows == 2
MaxHandItems == 1

\* the validated bodies of POST and PUT /api/categories
CategoryAdminForms ==
  { [ name |-> sRevenue, displayName |-> sRevenueDisplay, type |-> "revenue", sortOrder |-> 0 ],
    [ name |-> sFood, displayName |-> sFoodDisplay, type |-> "expense", sortOrder |-> 100 ],
    [ name |-> sOther, displayName |-> sOtherDisplay, type |-> "expense", sortOrder |-> 100 ] }

\* the validated bodies of POST and PUT /api/budget/items: the item the
\* import makes of RecordRent, under the category food or revenue
ItemAdminForms ==
  { [ name |-> "Rent", category |-> category, expectedAmount |-> 10000,
      actualAmount |-> 8000, dueDate |-> 0, isPaid |-> TRUE ]
    : category \in { sFood, sRevenue } }

\* the ids the routes are called with: those of rows and one of no row
CategoryIds == 1..(MaxCategoryRows + 1)
ItemIds == 1..(MaxHandItems + 1)

\* the serial sequences stay within the ids above
WithinSerials(db) ==
  /\ db.seq.cats <= MaxCategoryRows + 1
  /\ db.seq.items <= MaxHandItems + 1

\* PUT /api/categories/:id with a valid body: outcomes [db, status]
updateCategoryRoute(db, id, validatedData) ==
  LET existingCategory == { c \in db.cats : c.id = id }
      nameConflict == { c \in db.cats : c.name = validatedData.name }
      updatedCategory == [ id |-> id, name |-> validatedData.name,
                           displayName |-> validatedData.displayName,
                           type |-> validatedData.type,
                           sortOrder |-> validatedData.sortOrder ]
  IN IF existingCategory = {}
     THEN { [ db |-> db, status |-> 404 ] }
     ELSE IF \E c \in existingCategory : validatedData.name # c.name /\ nameConflict # {}
     THEN { [ db |-> db, status |-> 400 ] }
     ELSE { [ db |-> [ db EXCEPT !.cats = (@ \ existingCategory) \cup {updatedCategory} ],
              status |-> 200 ] }

\* no category name is refused
ProtectedNamesNone == { }

\* the names DELETE /api/categories/:id refuses
ProtectedNames == { sRevenue, sOther }

\* no item counts as referencing a category
ReferencingItemsNone(db, id) == { }

\* budget_items.category_id references categories.id: the rows that keep
\* the category with this id from being deleted
ReferencingItems(db, id) == { it \in db.items : it.categoryId = id }

\* DELETE /api/categories/:id: outcomes [db, status]; the delete of a
\* category that items reference is rejected by the database and caught
deleteCategoryRoute(db, id) ==
  LET existingCategory == { c \in db.cats : c.id = id }
  IN IF existingCategory = {}
     THEN { [ db |-> db, status |-> 404 ] }
     ELSE IF \E c \in existingCategory : c.name \in ProtectedNames
     THEN { [ db |-> db, status |-> 400 ] }
     ELSE IF ReferencingItems(db, id) # {}
     THEN { [ db |-> db, status |-> 500 ] }
     ELSE { [ db |-> [ db EXCEPT !.cats = @ \ existingCategory ], status |-> 200 ] }

\* PUT /api/budget/items/:id with a valid body: outcomes [db, status]
updateBudgetItem(db, id, data) ==
  LET categoryRows == { c \in db.cats : c.name = data.category }
      rows == { it \in db.items : it.id = id }
  IN IF categoryRows = {}
     THEN { [ db |-> db, status |-> 500 ] }
     ELSE IF rows = {}
     THEN { [ db |-> db, status |-> 404 ] }
     ELSE { [ db |-> [ db EXCEPT
                !.items = (@ \ rows)
                  \cup { [ it EXCEPT !.categoryId = category.id,
                                     !.name = data.name,
                                     !.expectedAmount = data.expectedAmount,
                                     !.actualAmount = data.actualAmount,
                                     !.dueDate = data.dueDate,
                                     !.isPaid = data.isPaid ] : it \in rows } ],
              status |-> 200 ]
            : category \in categoryRows }

\* DELETE /api/budget/items/:id: outcomes [db, status]
deleteBudgetItem(db, id) ==
  LET rows == { it \in db.items : it.id = id }
  IN IF rows = {}
     THEN { [ db |-> db, status |-> 404 ] }
     ELSE { [ db |-> [ db EXCEPT !.items = @ \ rows ], status |-> 200 ] }

CreateCategoryByHand ==
  \E validatedData \in CategoryAdminForms :
    LET r == createCategoryRoute(Store, validatedData)
    IN /\ WithinSerials(r.db)
       /\ Commit(r.db)
       /\ last' = [ op |-> "createCategory" ]
       /\ UNCHANGED << selectedMonth, requests >>

UpdateCategory ==
  \E id \in CategoryIds, validatedData \in CategoryAdminForms :
    \E r \in updateCategoryRoute(Store, id, validatedData) :
      /\ Commit(r.db)
      /\ last' = [ op |-> "updateCategory" ]
      /\ UNCHANGED << selectedMonth, requests >>

DeleteCategory ==
  \E id \in CategoryIds :
    \E r \in deleteCategoryRoute(Store, id) :
      /\ Commit(r.db)
      /\ last' = [ op |-> "deleteCategory", id |-> id, status |-> r.status ]
      /\ UNCHANGED << selectedMonth, requests >>

\* storage.getCurrentMonth() of a request without user
ResolveMonthByHand ==
  \E r \in resolveMonth(Store, selectedMonth.year, selectedMonth.month, 0) :
    /\ WithinSerials(r.db)
    /\ Commit(r.db)
    /\ last' = [ op |-> "getOrCreateMonth" ]
    /\ UNCHANGED << selectedMonth, requests >>

\* POST /api/budget/items with a valid body
CreateBudgetItemByHand ==
  \E data \in ItemAdminForms :
    \E r \in createBudgetItem(Store, data) :
      /\ WithinSerials(r.db)
      /\ Commit(r.db)
      /\ last' = [ op |-> "createBudgetItem" ]
      /\ UNCHANGED << selectedMonth, requests >>

UpdateBudgetItem ==
  \E id \in ItemIds, data \in ItemAdminForms :
    \E r \in updateBudgetItem(Store, id, data) :
      /\ Commit(r.db)
      /\ last' = [ op |-> "updateBudgetItem", id |-> id, status |-> r.status ]
      /\ UNCHANGED << selectedMonth, requests >>

DeleteBudgetItem ==
  \E id \in ItemIds :
    \E r \in deleteBudgetItem(Store, id) :
      /\ Commit(r.db)
      /\ last' = [ op |-> "deleteBudgetItem", id |-> id, status |-> r.status ]
      /\ UNCHANGED << selectedMonth, requests >>

\* storage.importBudgetData(year, month, data) next to the routes
ImportByHand ==
  \E ym \in YearMonths, data \in { << RecordRent >> } :
    /\ \E r \in importBudgetData(Store, ym[1], ym[2], data) :
         /\ WithinSerials(r.db)
         /\ Commit(r.db)
         /\ last' = [ op |-> "importBudgetData" ]
         /\ UNCHANGED << selectedMonth, requests >>

NextCategories ==
  \/ ResolveMonthByHand
  \/ CreateCategoryByHand
  \/ UpdateCategory
  \/ DeleteCategory
  \/ CreateBudgetItemByHand
  \/ UpdateBudgetItem
  \/ DeleteBudgetItem
  \/ ImportByHand

SpecCategories == InitImport /\ [][NextCategories]_vars

\* C20: every budget item's categoryId is the id of a category and its
\* budgetMonthId the id of a budget month, in every state that month
\* resolution, the item routes, the category routes and the import reach.
C20_ReferentialIntegrity ==
  \A it \in budgetItems :
    /\ \E c \in categories : c.id = it.categoryId
    /\ \E b \in budgetMonths : b.id = it.budgetMonthId

\* C20 witness: a category was deleted while an item of another category
\* was stored
C20_Witness ==
  /\ last.op = "deleteCategory"
  /\ last.status = 200
  /\ budgetItems # {}
  /\ categories # {}

\* the category a DELETE /api/categories/:id request names
DeleteTarget == { c \in categories : c.id = last'.id }

\* C18: a request to delete the category named "revenue" or the category
\* named "other" is refused with an error, and the categories and the budget
\* items are left as they were.
C18_ProtectedCategories ==
  [][ ( /\ last'.op = "deleteCategory"
        /\ \E c \in DeleteTarget : c.name \in { sRevenue, sOther } )
      => /\ last'.status = 400
         /\ categories' = categories
         /\ budgetItems' = budgetItems ]_vars

\* C18 witness: the delete of the category revenue was refused while an item
\* referred to it
C18_Witness ==
  /\ last.op = "deleteCategory"
  /\ last.status = 400
  /\ \E c \in categories :
       /\ c.id = last.id
       /\ c.name = sRevenue
       /\ \E it \in budgetItems : it.categoryId = c.id

\* C19: the delete of an existing category that is not protected and that
\* budget items refer to succeeds; afterwards the category and the items that
\* referred to it are gone and the other items are unchanged.
C19_DeleteCascades ==
  [][ ( /\ last'.op = "deleteCategory"
        /\ \E c \in DeleteTarget : c.name \notin { sRevenue, sOther }
        /\ \E it \in budgetItems : it.categoryId = last'.id )
      => /\ last'.status = 200
         /\ categories' = categories \ DeleteTarget
         /\ budgetItems' = { it \in budgetItems : it.categoryId # last'.id } ]_vars

\* ------------------------------------ category names by hand and by import
\* storage.importBudgetData(year, month, data) with an expense and a revenue
\* that name the category food
ImportTyped == ImportOneOf(BatchesOf(TypedRecords))

NextCategoryNames ==
  \/ CreateCategoryByHand
  \/ UpdateCategory
  \/ ImportTyped

SpecCategoryNames == InitImport /\ [][NextCategoryNames]_vars

\* C21: no two category rows have the same name, in every state that
\* category create, category update and import batches reach.
C21_UniqueCategoryNames ==
  \A c, d \in categories : c.name = d.name => c = d

\* C22: updating or deleting a budget item whose id matches no stored item
\* is answered 404, not 400 or 500, and leaves every stored row unchanged.
C22_ItemNotFound ==
  [][ ( /\ last'.op \in { "updateBudgetItem", "deleteBudgetItem" }
        /\ ~ \E it \in budgetItems : it.id = last'.id )
      => /\ last'.status = 404
         /\ budgetItems' = budgetItems
         /\ categories' = categories
         /\ budgetMonths' = budgetMonths ]_vars

\* the (year, month) of the month row an item belongs to after the step
MonthOfItem(it) ==
  { << b.year, b.month >> : b \in { r \in budgetMonths' : r.id = it.budgetMonthId } }

\* C23: one import batch inserts at most one month row per distinct target
\* (year, month) and none for a target the store already holds; the records
\* of one target are attached to one month id; monthsCreated is the number of
\* month rows the batch inserted.
C23_MonthResolvedOncePerBatch ==
  [][ (last'.op = "importBudgetData" /\ last'.data \in BatchesOf(MonthRecords))
      => LET added == budgetMonths' \ budgetMonths
             newItems == budgetItems' \ budgetItems
         IN /\ budgetMonths \subseteq budgetMonths'
            /\ \A a, b \in added : (a.year = b.year /\ a.month = b.month) => a = b
            /\ \A a \in added : ~ \E e \in budgetMonths :
                                     e.year = a.year /\ e.month = a.month
            /\ Cardinality(added) = last'.res.monthsCreated
            /\ \A a, b \in newItems :
                 MonthOfItem(a) = MonthOfItem(b) => a.budgetMonthId = b.budgetMonthId ]_vars

\* C23 witness: a batch for January 2024 brought three records, two of
\* January 2024 and one of December 2023, and created both months
C23_Witness ==
  /\ last.op = "importBudgetData"
  /\ last.year = 2024 /\ last.month = 1
  /\ last.data = << RecordSalary, RecordBonus, RecordRent >>
  /\ last.res.monthsCreated = 2
  /\ Cardinality(budgetMonths) = 2
  /\ \E a, r \in budgetItems :
       /\ a.name = RecordSalary.name
       /\ r.name = RecordRent.name
       /\ a.budgetMonthId = r.budgetMonthId

\* ------------------------------------------------------------- navigation
\* POST /api/budget/navigate with a valid date of the month (year, month):
\* getOrCreateMonth(date.getFullYear(), date.getMonth() + 1), nothing else
Navigate ==
  \E ym \in YearMonths :
    \E r \in resolveMonth(Store, ym[1], ym[2], 0) :
      /\ Commit(r.db)
      /\ last' = [ op |-> "navigate", year |-> ym[1], month |-> ym[2], status |-> 200,
                   id |-> r.id ]
      /\ UNCHANGED << selectedMonth, requests >>

NextNavigate ==
  \/ Navigate
  \/ GetCurrentMonth
  \/ CreateCategory
  \/ CreateBudgetItem

SpecNavigate == Init /\ [][NextNavigate]_vars

\* C24: after a successful navigate request to month (y, m) the selected
\* month is (y, m): the next getCurrentMonth resolves (y, m) and the next
\* createBudgetItem inserts its item into a month row of (y, m).
C24_CursorFollowsNavigation ==
  [][ /\ last'.op = "navigate"
         => selectedMonth' = [ year |-> last'.year, month |-> last'.month ]
      /\ (last.op = "navigate" /\ last'.op = "getOrCreateMonth")
         => (last'.year = last.year /\ last'.month = last.month)
      /\ (last.op = "navigate" /\ last'.op = "createBudgetItem" /\ last'.ok)
         => \E b \in budgetMonths' :
              /\ b.id = last'.monthId
              /\ b.year = last.year /\ b.month = last.month ]_vars

\* --------------------------------------------------------- the import route
\* the value true of a response field, next to AmountNumber for a number
JsTrue == [ k |-> "boolean", v |-> TRUE ]

\* the body res.json() is given: { message, ...result, success: true }, the
\* message kept as the two counts it prints
importResponse(result) ==
  [ [ message |-> [ imported |-> result.success, categories |-> result.categoryCreated ],
      success |-> AmountNumber(result.success),
      failed |-> result.failed,
      categoryCreated |-> result.categoryCreated,
      monthsCreated |-> result.monthsCreated,
      errors |-> result.errors ]
    EXCEPT !.success = JsTrue ]

\* POST /api/budget/import with a valid body: 200 with the body above, or 500
\* when importBudgetData rejects
ImportRoute ==
  \E ym \in YearMonths, data \in ImportBatches \cup BatchesOf(FaultyRecords) :
    /\ Cardinality(budgetItems) + Cardinality(Inserting(data)) <= MaxItemRows
    /\ \E r \in importBudgetData(Store, ym[1], ym[2], data) :
         /\ Commit(r.db)
         /\ last' = IF r.threw
                    THEN [ op |-> "importRoute", status |-> 500 ]
                    ELSE [ op |-> "importRoute", status |-> 200, result |-> r.res,
                           body |-> importResponse(r.res) ]
         /\ UNCHANGED << selectedMonth, requests >>

NextImportRoute ==
  \/ ImportRoute

SpecImportRoute == InitImport /\ [][NextImportRoute]_vars

\* C25: the response of the import request carries the counts of
\* importBudgetData unchanged: success is the number of records imported,
\* next to failed, categoryCreated, monthsCreated and the errors.
C25_ResponseReportsCounts ==
  (last.op = "importRoute" /\ last.status = 200)
  => /\ last.body.success.k = "number"
     /\ last.body.success.v = last.result.success
     /\ last.body.failed = last.result.failed
     /\ last.body.categoryCreated = last.result.categoryCreated
     /\ last.body.monthsCreated = last.result.monthsCreated
     /\ last.body.errors = last.result.errors

\* ------------------------------------------- the view of imported months
NextImportView ==
  \/ ImportBudgetData
  \/ GetOrCreateMonth

SpecImportView == InitImport /\ [][NextImportView]_vars

\* the places of a month view where the item with this id appears: position
\* i of revenueItems as << 0, i >>, position i of the items of the expense
\* category at position c as << c, i >>
Appearances(view, id) ==
  { << 0, i >> : i \in { j \in DOMAIN view.revenueItems : view.revenueItems[j].id = id } }
  \cup UNION { { << c, i >> : i \in { j \in DOMAIN view.expenseCategories[c].items :
                                         view.expenseCategories[c].items[j].id = id } }
               : c \in DOMAIN view.expenseCategories }

\* C26: every budget item stored for a month appears exactly once in the
\* month's view, in revenueItems or in the items of one expense category,
\* also for items that came from import records of any type.
C26_EveryItemInOneList ==
  last.op = "getOrCreateMonth"
  => \A view \in ReturnedViews :
       \A it \in ItemsOfMonth(budgetItems, last.id) :
         Cardinality(Appearances(view, it.id)) = 1

\* C27: a month that getOrCreateMonth(year, month, ownerId) creates is stored
\* with that owner, and the month its items are carried forward from is a
\* preceding month of the same owner (of no owner when ownerId is absent).
C27_OwnerIsolation ==
  [][ (last'.op = "getOrCreateMonth" /\ last'.created)
      => /\ \A b \in budgetMonths' : b.id = last'.id => b.userId = last'.userId
         /\ \A b \in budgetMonths' : b.id = last'.prevId => b.userId = last'.userId ]_vars

\* categories named "revenue" and "other" are stored
ProtectedExist(cats) ==
  /\ \E c \in cats : c.name = sRevenue
  /\ \E c \in cats : c.name = sOther

\* C28: once categories named "revenue" and "other" exist, they exist after
\* every category create, update and delete request.
C28_ProtectedCategoriesStay ==
  [][ ProtectedExist(categories) => ProtectedExist(categories') ]_vars

\* C29: getOrCreateMonth (and getCurrentMonth) of a (year, month, owner) that
\* has a month row leaves the tables of months, items and categories as they
\* were and creates nothing: items added to a month after the next month
\* exists are not copied into it.
C29_ExistingMonthIsRead ==
  [][ ( /\ last'.op = "getOrCreateMonth"
        /\ \E b \in budgetMonths : /\ b.year = last'.year
                                    /\ b.month = last'.month
                                    /\ b.userId = last'.userId )
      => /\ ~ last'.created
         /\ budgetMonths' = budgetMonths
         /\ budgetItems' = budgetItems
         /\ categories' = categories ]_vars

\* C29 witness: January 2024 was resolved again, without items, while
\* December 2023 holds an item added after January 2024 was created
C29_Witness ==
  /\ last.op = "getOrCreateMonth"
  /\ ~ last.created
  /\ last.year = 2024 /\ last.month = 1
  /\ ItemsOfMonth(budgetItems, last.id) = {}
  /\ \E b \in budgetMonths :
       /\ b.year = 2023 /\ b.month = 12
       /\ b.id < last.id
       /\ ItemsOfMonth(budgetItems, b.id) # {}

\* ------------------------------- import and month resolution side by side
\* storage.importBudgetData(year, month, data) with a record of the batch's
\* month and a record of January 2024
ImportDated == ImportOneOf(BatchesOf({ RecordRent, RecordSalary }))

NextImportCarry ==
  \/ ImportDated
  \/ GetOrCreateMonth

SpecImportCarry == InitImport /\ [][NextImportCarry]_vars

\* C30: a month row that importBudgetData creates gets no carried-forward
\* items: the batch inserts one item per imported record and nothing else,
\* also when the preceding month holds items, and a later getOrCreateMonth
\* leaves the items of every month row that exists as they were.
C30_ImportCreatesWithoutCarryForward ==
  [][ /\ last'.op = "importBudgetData"
         => LET newItems == budgetItems' \ budgetItems
            IN /\ Cardinality(newItems) = last'.res.success
               /\ budgetItems \subseteq budgetItems'
               /\ \A it \in newItems : \E i \in DOMAIN last'.data : it.name = last'.data[i].name
               /\ \A b \in budgetMonths' \ budgetMonths :
                    ItemsOfMonth(budgetItems', b.id) \subseteq newItems
      /\ last'.op = "getOrCreateMonth"
         => \A b \in budgetMonths :
              ItemsOfMonth(budgetItems', b.id) = ItemsOfMonth(budgetItems, b.id) ]_vars

\* C30 witness: a batch created January 2024 for its one record while
\* December 2023 held an item
C30_Witness ==
  /\ last.op = "importBudgetData"
  /\ last.data = << RecordSalary >>
  /\ last.res.monthsCreated = 1
  /\ \E d, j \in budgetMonths :
       /\ d.year = 2023 /\ d.month = 12
       /\ j.year = 2024 /\ j.month = 1
       /\ ItemsOfMonth(budgetItems, d.id) # {}
       /\ Cardinality(ItemsOfMonth(budgetItems, j.id)) = 1
       /\ \A it \in ItemsOfMonth(budgetItems, j.id) : it.name = RecordSalary.name
====
